---- MODULE Spec2Model ----
(***************************************************************************)
(* Flyan: the search-parameter model (flyan/misc.py) and the RyanAir       *)
(* client facade (flyan/ryanair.py).                                       *)
(*                                                                         *)
(* Two specifications share the module:                                    *)
(*   SpecParams  construction of FlightSearchParams /                      *)
(*               ReturnFlightSearchParams and to_api_params;               *)
(*   Spec        the RyanAir client: constructor warm-up, the retried      *)
(*               __get, get_oneways and fare parsing.                      *)
(***************************************************************************)
EXTENDS Integers, Sequences, FiniteSets, TLC

VARIABLES
    \* ---- parameter model (misc.py) ----
    input,          \* keyword arguments handed to the constructor
    clock,          \* datetime.now() as read by validate_dates, per field
    ppc,            \* "start" | "constructed" | "invalid"
    obj,            \* None, or Some(the constructed parameter object)
    errors,         \* fields whose validator raised ValueError
    api,            \* None, or Some(last mapping returned by to_api_params)
    \* ---- client facade (ryanair.py) ----
    pc,             \* position of the client: see ClientPcs
    currency_arg,   \* the currency argument of RyanAir(...)
    currency,       \* self.currency: None until resolved
    url,            \* url of the __get call in progress (None when idle)
    attempt_number, \* tenacity: attempts made by the __get call in progress
    outcome,        \* tenacity: outcome of the last attempt (None before it)
    raised,         \* exception types raised by attempts of the current call
    requested,      \* urls for which client.get has ever been called
    sent_params,    \* query mapping handed to the fare-search __get
    result          \* None, or Some(how the last get_oneways ended)

pvars == <<input, clock, ppc, obj, errors, api>>
cvars == <<pc, currency_arg, currency, url, attempt_number, outcome, raised,
           requested, sent_params, result>>
vars == <<input, clock, ppc, obj, errors, api, pc, currency_arg, currency, url,
          attempt_number, outcome, raised, requested, sent_params, result>>

-----------------------------------------------------------------------------
(* Python values *)

\* Optional[T]: None is the empty set, a present value v is {v}.
None == {}
Some(v) == {v}
Val(o) == CHOOSE v \in o : TRUE

\* bool(x) of an Optional[str] / Optional[int] attribute, as used by
\* `if self.x:` and `self.x or default`.
TruthyStr(o) == o # None /\ Val(o) # ""
TruthyInt(o) == o # None /\ Val(o) # 0
TruthySeq(o) == o # None /\ Val(o) # <<>>

\* Airport codes are strings spelled as sequences of characters so that
\* str.upper() is computed character by character.
Lower == <<"a", "b", "c", "d", "n", "s", "t", "u", "x">>
UpperOf == <<"A", "B", "C", "D", "N", "S", "T", "U", "X">>
UpperChar(c) ==
    IF \E i \in DOMAIN Lower : Lower[i] = c
    THEN UpperOf[CHOOSE i \in DOMAIN Lower : Lower[i] = c]
    ELSE c
upper(s) == [i \in DOMAIN s |-> UpperChar(s[i])]

\* datetime: a calendar day and an hour of that day.
MaxDay == 2
Hours == {0, 12}
DateTimes == [day : 1..MaxDay, hour : Hours]
\* datetime.__lt__
DtLess(a, b) == a.day < b.day \/ (a.day = b.day /\ a.hour < b.hour)
\* datetime.date().isoformat(): the time of day is dropped.
isoformat_date(dt) ==
    IF dt.day < 10 THEN "2030-01-0" \o ToString(dt.day)
    ELSE "2030-01-" \o ToString(dt.day)

\* dict union, the right operand's keys added to (and overriding) the left.
DictUpdate(d, e) == e @@ d

-----------------------------------------------------------------------------
(* flyan/misc.py *)

\* stations = _load_json_file("stations.json"): keys are IATA codes.
stations == {<<"D", "U", "B">>, <<"S", "T", "N">>}
\* currencies = _load_json_file("currencies.json")
currencies == {"EUR", "GBP"}

\* validate_airport with the membership test made on the uppercased code
validate_airport_ignoring_case(v) ==
    IF upper(v) \notin stations
    THEN [ok |-> FALSE, value |-> v]
    ELSE [ok |-> TRUE, value |-> upper(v)]

\* FlightSearchParams.validate_airport: [ok, value]
validate_airport(v) ==
    IF v \notin stations
    THEN [ok |-> FALSE, value |-> v]
    ELSE [ok |-> TRUE, value |-> upper(v)]

\* FlightSearchParams.validate_dates, with `now` the reading of datetime.now()
validate_dates(v, now) ==
    IF DtLess(v, now)
    THEN [ok |-> FALSE, value |-> v]
    ELSE [ok |-> TRUE, value |-> v]

\* validate_price rejecting only negative prices
validate_price_allowing_zero(v) ==
    IF v = None THEN [ok |-> TRUE, value |-> v]
    ELSE IF Val(v) < 0 THEN [ok |-> FALSE, value |-> v]
    ELSE [ok |-> TRUE, value |-> v]

\* FlightSearchParams.validate_price
validate_price(v) ==
    IF v = None THEN [ok |-> TRUE, value |-> v]
    ELSE IF Val(v) <= 0 THEN [ok |-> FALSE, value |-> v]
    ELSE [ok |-> TRUE, value |-> v]

\* ReturnFlightSearchParams.validate_return_dates
validate_return_dates(v) == [ok |-> TRUE, value |-> v]

IsReturn(i) == i.cls = "ReturnFlightSearchParams"

\* The fields of a class that carry a field_validator, in declaration order,
\* each with the validator's verdict on the supplied value.
Validation(i, clk) ==
    [from_airport |-> validate_airport(i.from_airport),
     from_date |-> validate_dates(i.from_date, clk.from_date),
     to_date |-> validate_dates(i.to_date, clk.to_date),
     max_price |-> validate_price(i.max_price),
     return_date_from |->
        IF IsReturn(i) THEN validate_return_dates(i.return_date_from)
        ELSE [ok |-> TRUE, value |-> i.return_date_from],
     return_date_to |->
        IF IsReturn(i) THEN validate_return_dates(i.return_date_to)
        ELSE [ok |-> TRUE, value |-> i.return_date_to]]

\* pydantic collects every failing field into one ValidationError.
ValidationErrors(i, clk) ==
    {f \in DOMAIN Validation(i, clk) : ~Validation(i, clk)[f].ok}

\* BaseModel.__init__: the object pydantic builds when no validator raised.
\* Validated fields hold the validators' return values, the others hold the
\* supplied values unchanged.
Construct(i, clk) ==
    [cls |-> i.cls,
     from_airport |-> Validation(i, clk).from_airport.value,
     from_date |-> Validation(i, clk).from_date.value,
     to_date |-> Validation(i, clk).to_date.value,
     destination_country |-> i.destination_country,
     max_price |-> Validation(i, clk).max_price.value,
     to_airport |-> i.to_airport,
     departure_time_from |-> i.departure_time_from,
     departure_time_to |-> i.departure_time_to,
     return_date_from |-> Validation(i, clk).return_date_from.value,
     return_date_to |-> Validation(i, clk).return_date_to.value,
     inbound_departure_time_from |-> i.inbound_departure_time_from,
     inbound_departure_time_to |-> i.inbound_departure_time_to]

\* to_api_params testing the optional fields with `is not None`
to_api_params_is_not_none(self) ==
    LET params ==
            [departureAirportIataCode |-> self.from_airport,
             outboundDepartureDateFrom |-> isoformat_date(self.from_date),
             outboundDepartureDateTo |-> isoformat_date(self.to_date),
             outboundDepartureTimeFrom |->
                IF TruthyStr(self.departure_time_from)
                THEN Val(self.departure_time_from) ELSE "00:00",
             outboundDepartureTimeTo |->
                IF TruthyStr(self.departure_time_to)
                THEN Val(self.departure_time_to) ELSE "23:59"]
        p1 == IF self.destination_country # None
              THEN DictUpdate(params,
                     [arrivalCountryCode |-> Val(self.destination_country)])
              ELSE params
        p2 == IF self.max_price # None
              THEN DictUpdate(p1, [priceValueTo |-> Val(self.max_price)])
              ELSE p1
        p3 == IF self.to_airport # None
              THEN DictUpdate(p2,
                     [arrivalAirportIataCode |-> Val(self.to_airport)])
              ELSE p2
    IN p3

\* FlightSearchParams.to_api_params
to_api_params(self) ==
    LET params ==
            [departureAirportIataCode |-> self.from_airport,
             outboundDepartureDateFrom |-> isoformat_date(self.from_date),
             outboundDepartureDateTo |-> isoformat_date(self.to_date),
             outboundDepartureTimeFrom |->
                IF TruthyStr(self.departure_time_from)
                THEN Val(self.departure_time_from) ELSE "00:00",
             outboundDepartureTimeTo |->
                IF TruthyStr(self.departure_time_to)
                THEN Val(self.departure_time_to) ELSE "23:59"]
        p1 == IF TruthyStr(self.destination_country)
              THEN DictUpdate(params,
                     [arrivalCountryCode |-> Val(self.destination_country)])
              ELSE params
        p2 == IF TruthyInt(self.max_price)
              THEN DictUpdate(p1, [priceValueTo |-> Val(self.max_price)])
              ELSE p1
        p3 == IF TruthySeq(self.to_airport)
              THEN DictUpdate(p2,
                     [arrivalAirportIataCode |-> Val(self.to_airport)])
              ELSE p2
    IN p3

\* ReturnFlightSearchParams.to_api_params
return_to_api_params(self) ==
    LET params == to_api_params(self)
        additional_params ==
            [inboundDepartureDateFrom |-> isoformat_date(self.return_date_from),
             inboundDepartureDateTo |-> isoformat_date(self.return_date_to)]
        a1 == IF TruthyStr(self.inbound_departure_time_from)
              THEN DictUpdate(additional_params,
                     [inboundDepartureTimeFrom |->
                        Val(self.inbound_departure_time_from)])
              ELSE additional_params
        a2 == IF TruthyStr(self.inbound_departure_time_to)
              THEN DictUpdate(a1,
                     [inboundDepartureTimeTo |->
                        Val(self.inbound_departure_time_to)])
              ELSE a1
    IN DictUpdate(params, a2)

\* Method dispatch on the object's class.
call_to_api_params(self) ==
    IF self.cls = "ReturnFlightSearchParams"
    THEN return_to_api_params(self)
    ELSE to_api_params(self)

-----------------------------------------------------------------------------
(* Inputs of the parameter model *)

AirportInputs == {<<"D", "U", "B">>, <<"d", "u", "b">>, <<"X", "X", "X">>}
ToAirportInputs ==
    {None, Some(<<>>), Some(<<"S", "T", "N">>), Some(<<"x", "x", "x">>)}
PriceInputs == {None, Some(-1), Some(0), Some(1), Some(2)}
CountryInputs == {None, Some(""), Some("IE")}
TimeFromInputs == {None, Some("06:00")}
TimeToInputs == {Some(""), Some("18:00")}
\* Readings of datetime.now(): validate_dates reads the clock once for
\* from_date and once more, not earlier, for to_date.
NowInputs == {[day |-> 1, hour |-> 12], [day |-> 2, hour |-> 0]}
ClockInputs ==
    {c \in [from_date : NowInputs, to_date : NowInputs] :
        ~DtLess(c.to_date, c.from_date)}

OneWayInputs ==
    [cls : {"FlightSearchParams"},
     from_airport : AirportInputs,
     from_date : DateTimes,
     to_date : DateTimes,
     destination_country : CountryInputs,
     max_price : PriceInputs,
     to_airport : ToAirportInputs,
     departure_time_from : TimeFromInputs,
     departure_time_to : TimeToInputs,
     return_date_from : {None},
     return_date_to : {None},
     inbound_departure_time_from : {None},
     inbound_departure_time_to : {None}]

ReturnInputs ==
    [cls : {"ReturnFlightSearchParams"},
     from_airport : {<<"D", "U", "B">>, <<"X", "X", "X">>},
     from_date : DateTimes,
     to_date : DateTimes,
     destination_country : {None},
     max_price : {None, Some(2)},
     to_airport : {None, Some(<<"x", "x", "x">>)},
     departure_time_from : {Some("00:00")},
     departure_time_to : {Some("23:59")},
     return_date_from : DateTimes,
     return_date_to : DateTimes,
     inbound_departure_time_from : {None, Some("07:00")},
     inbound_departure_time_to : {Some(""), Some("23:59")}]

-----------------------------------------------------------------------------
(* flyan/ryanair.py *)

\* stop_after_attempt(5)
MaxAttempts == 5

BASE_SERVICES_API_URL == "https://services-api.ryanair.com/farfnd/v4"
WarmupUrl == "https://www.ryanair.com"
OneWayUrl == BASE_SERVICES_API_URL \o "/oneWayFares"

ClientPcs ==
    {"uninitialized", "warmup", "warmed_up", "init_raised", "ready", "search"}

\* Exception classes and their direct base class.
ExcParent ==
    [ConnectError |-> "TransportError",
     TransportError |-> "RequestError",
     RequestError |-> "HTTPError",
     HTTPStatusError |-> "HTTPError",
     HTTPError |-> "Exception",
     RuntimeError |-> "Exception",
     KeyError |-> "LookupError",
     LookupError |-> "Exception",
     JSONDecodeError |-> "ValueError",
     ValidationError |-> "ValueError",
     ValueError |-> "Exception",
     TypeError |-> "Exception",
     Exception |-> "BaseException"]

\* isinstance(e, cls) for an exception of class t: the matching rule of an
\* `except cls:` clause and of retry_if_exception_type(cls).
RECURSIVE IsInstance(_, _)
IsInstance(t, cls) ==
    IF t = cls THEN TRUE
    ELSE IF t \in DOMAIN ExcParent THEN IsInstance(ExcParent[t], cls)
    ELSE FALSE

Raise(t) == [kind |-> "exception", type |-> t]
Response(status, body) == [kind |-> "response", status |-> status, body |-> body]
IsException(o) == o # None /\ Val(o).kind = "exception"
IsResponse(o) == o # None /\ Val(o).kind = "response"

\* httpx.Response.is_success
is_success(r) == 200 <= r.status /\ r.status <= 299

\* One attempt of __get: client.get(url, params) gave `got` (a response, or
\* an exception it raised); raise_for_status() turns a response that is not
\* a success into HTTPStatusError.
get_attempt(got) ==
    IF got.kind = "exception" THEN got
    ELSE IF ~is_success(got) THEN Raise("HTTPStatusError")
    ELSE got

\* a retry decision that ignores how the attempt ended
retry_again_whatever_outcome(n, o) == n < MaxAttempts

\* tenacity: after an attempt with outcome o, is another attempt made?
\* retry=retry_if_exception_type(Exception), stop=stop_after_attempt(5)
retry_again(n, o) ==
    /\ o.kind = "exception"
    /\ IsInstance(o.type, "Exception")
    /\ n < MaxAttempts

-----------------------------------------------------------------------------
(* Response parsing *)

\* A JSON object is a function from its keys; a JSON number is [num |-> n],
\* a JSON string is [str |-> s].
Has(d, k) == k \in DOMAIN d
Ok(v) == [ok |-> TRUE, value |-> v]
Err(t) == [ok |-> FALSE, exc |-> t]

\* datetime.fromisoformat on a JSON string value: ValueError unless the
\* text is an ISO-8601 timestamp.
fromisoformat(j) ==
    IF ~Has(j, "str") THEN Err("TypeError") ELSE
    CASE j.str = "2030-01-01T10:00:00" -> Ok([day |-> 1, hour |-> 10])
      [] j.str = "2030-01-01T12:00:00" -> Ok([day |-> 1, hour |-> 12])
      [] j.str = "2030-01-02T10:00:00" -> Ok([day |-> 2, hour |-> 10])
      [] OTHER -> Err("ValueError")

\* pydantic's validation of a value for a `float` field.
validate_float(j) ==
    IF Has(j, "num") THEN Ok(j.num) ELSE Err("ValidationError")

\* RyanAir.__parse_airport
parse_airport(airport) ==
    IF ~Has(airport, "countryName") THEN Err("KeyError")
    ELSE IF ~Has(airport, "iataCode") THEN Err("KeyError")
    ELSE IF ~Has(airport, "name") THEN Err("KeyError")
    ELSE IF ~Has(airport, "seoName") THEN Err("KeyError")
    ELSE IF ~Has(airport, "city") THEN Err("KeyError")
    ELSE IF ~Has(airport.city, "name") THEN Err("KeyError")
    ELSE IF ~Has(airport.city, "code") THEN Err("KeyError")
    ELSE IF ~Has(airport.city, "countryCode") THEN Err("KeyError")
    ELSE Ok([country_name |-> airport.countryName.str,
             iata_code |-> airport.iataCode.str,
             name |-> airport.name.str,
             seo_name |-> airport.seoName.str,
             city_name |-> airport.city.name.str,
             city_code |-> airport.city.code.str,
             city_country_code |-> airport.city.countryCode.str])

\* RyanAir.__parse_fare: the subscripts, conversions and the Flight(...)
\* validation in the order the code evaluates them; the first one that
\* raises decides the exception.
parse_fare(fare, k) ==
    IF ~Has(fare, k) THEN Err("KeyError")
    ELSE IF ~Has(fare[k], "departureDate") THEN Err("KeyError")
    ELSE IF ~fromisoformat(fare[k].departureDate).ok
        THEN Err(fromisoformat(fare[k].departureDate).exc)
    ELSE IF ~Has(fare[k], "arrivalDate") THEN Err("KeyError")
    ELSE IF ~fromisoformat(fare[k].arrivalDate).ok
        THEN Err(fromisoformat(fare[k].arrivalDate).exc)
    ELSE IF ~Has(fare[k], "departureAirport") THEN Err("KeyError")
    ELSE IF ~parse_airport(fare[k].departureAirport).ok
        THEN Err(parse_airport(fare[k].departureAirport).exc)
    ELSE IF ~Has(fare[k], "arrivalAirport") THEN Err("KeyError")
    ELSE IF ~parse_airport(fare[k].arrivalAirport).ok
        THEN Err(parse_airport(fare[k].arrivalAirport).exc)
    ELSE IF ~Has(fare[k], "price") THEN Err("KeyError")
    ELSE IF ~Has(fare[k].price, "value") THEN Err("KeyError")
    ELSE IF ~Has(fare[k].price, "currencyCode") THEN Err("KeyError")
    ELSE IF ~Has(fare[k], "flightKey") THEN Err("KeyError")
    ELSE IF ~Has(fare[k], "flightNumber") THEN Err("KeyError")
    ELSE IF ~validate_float(fare[k].price.value).ok
        THEN Err(validate_float(fare[k].price.value).exc)
    ELSE Ok([departure_airport |-> parse_airport(fare[k].departureAirport).value,
             arrival_airport |-> parse_airport(fare[k].arrivalAirport).value,
             departure_date |-> fromisoformat(fare[k].departureDate).value,
             arrival_date |-> fromisoformat(fare[k].arrivalDate).value,
             price |-> validate_float(fare[k].price.value).value,
             currency |-> fare[k].price.currencyCode.str,
             flight_key |-> fare[k].flightKey.str,
             flight_number |-> fare[k].flightNumber.str,
             previous_price |->
                IF Has(fare[k], "previousPrice")
                THEN Some(fare[k].previousPrice) ELSE None])

\* the comprehension with the resulting list built back to front
parse_fares_reversed(fares) ==
    LET parsed == [i \in DOMAIN fares |-> parse_fare(fares[i], "outbound")]
        bad == {i \in DOMAIN fares : ~parsed[i].ok}
    IN IF bad = {}
       THEN Ok([i \in DOMAIN fares |-> parsed[Len(fares) + 1 - i].value])
       ELSE Err(parsed[CHOOSE i \in bad : \A j \in bad : i <= j].exc)

\* [self.__parse_fare(f) for f in fares]: the entries are parsed from the
\* first to the last; the first entry whose parse raises ends the
\* comprehension with that exception.
parse_fares(fares) ==
    LET parsed == [i \in DOMAIN fares |-> parse_fare(fares[i], "outbound")]
        bad == {i \in DOMAIN fares : ~parsed[i].ok}
    IN IF bad = {}
       THEN Ok([i \in DOMAIN fares |-> parsed[i].value])
       ELSE Err(parsed[CHOOSE i \in bad : \A j \in bad : i <= j].exc)

\* httpx.Response.json()
response_json(r) ==
    IF r.body.is_json THEN Ok(r.body.value) ELSE Err("JSONDecodeError")

Return(v) == [kind |-> "return", value |-> v]
Propagate(t) == [kind |-> "raise", type |-> t]

\* The try body of get_oneways after __get has returned response r.
get_oneways_try(r) ==
    IF ~is_success(r) THEN Ok(<<>>)
    ELSE IF ~response_json(r).ok THEN Err(response_json(r).exc)
    ELSE IF ~Has(response_json(r).value, "fares") THEN Err("KeyError")
    ELSE parse_fares(response_json(r).value.fares)

\* get_oneways without its `except httpx.HTTPError` clause
get_oneways_except_keyerror_only(t) ==
    IF IsInstance(t, "KeyError") THEN Return(<<>>)
    ELSE Propagate(t)

\* The except clauses of get_oneways, in order.
get_oneways_except(t) ==
    IF IsInstance(t, "HTTPError") THEN Return(<<>>)
    ELSE IF IsInstance(t, "KeyError") THEN Return(<<>>)
    ELSE Propagate(t)

\* RyanAir.get_oneways once its __get call has ended with outcome o
\* (the response it returned, or the exception it re-raised).
get_oneways(o) ==
    IF o.kind = "exception" THEN get_oneways_except(o.type)
    ELSE IF get_oneways_try(o).ok THEN Return(get_oneways_try(o).value)
    ELSE get_oneways_except(get_oneways_try(o).exc)

-----------------------------------------------------------------------------
(* Inputs of the client: what the remote side can answer *)

MaxFares == 2

Str(s) == [str |-> s]
Num(n) == [num |-> n]

AirportJson(code, city) ==
    [countryName |-> Str("Ireland"), iataCode |-> Str(code),
     name |-> Str(city), seoName |-> Str(city),
     city |-> [name |-> Str(city), code |-> Str(code),
               countryCode |-> Str("ie")]]

\* A fare whose outbound leg carries the given departureDate and, when pv
\* is present, price.value; every other required field is present.
Fare(dd, pv) ==
    [outbound |->
        [departureDate |-> dd,
         arrivalDate |-> Str("2030-01-01T12:00:00"),
         departureAirport |-> AirportJson("DUB", "dublin"),
         arrivalAirport |-> AirportJson("STN", "london"),
         price |-> IF pv = None THEN [currencyCode |-> Str("EUR")]
                   ELSE [value |-> Val(pv), currencyCode |-> Str("EUR")],
         flightKey |-> Str("FR123~"),
         flightNumber |-> Str("FR123")]]

DepartureDateInputs == {Str("2030-01-01T10:00:00"), Str("tomorrow")}
PriceValueInputs == {None, Some(Num(49)), Some(Num(99)), Some(Str("abc"))}
FareInputs == {Fare(dd, pv) : dd \in DepartureDateInputs, pv \in PriceValueInputs}

SeqsUpTo(S, n) == UNION {[1..m -> S] : m \in 0..n}

HtmlBody == [is_json |-> FALSE]
BodyInputs ==
    {HtmlBody, [is_json |-> TRUE, value |-> [message |-> Str("no fares")]]}
    \cup {[is_json |-> TRUE, value |-> [fares |-> fs]] :
            fs \in SeqsUpTo(FareInputs, MaxFares)}

\* What client.get(url, params) can do: raise, or return a response.
GotInputs(u) ==
    {Raise("ConnectError"), Raise("RuntimeError"), Response(503, HtmlBody)}
    \cup (IF u = OneWayUrl
          THEN {Response(200, b) : b \in BodyInputs}
          ELSE {Response(200, HtmlBody)})

CurrencyInputs == {"GBP", "XXX"}

\* Validated parameter objects handed to get_oneways.
SearchParamInputs ==
    {Construct(i, c) :
        i \in {x \in OneWayInputs :
                 /\ x.from_airport = <<"D", "U", "B">>
                 /\ x.from_date = [day |-> MaxDay, hour |-> 12]
                 /\ x.to_date = x.from_date
                 /\ x.destination_country = None
                 /\ x.to_airport = None
                 /\ x.departure_time_from = None
                 /\ x.departure_time_to = Some("18:00")
                 /\ x.max_price \in {None, Some(2)}},
        c \in {x \in ClockInputs : x.from_date = x.to_date
                                     /\ x.from_date.day = 1}}

-----------------------------------------------------------------------------
(* The parameter model as a state machine *)

ClientIdle ==
    /\ pc = "uninitialized"
    /\ currency_arg = "EUR"
    /\ currency = None
    /\ url = None
    /\ attempt_number = 0
    /\ outcome = None
    /\ raised = {}
    /\ requested = {}
    /\ sent_params = None
    /\ result = None

InitParams ==
    /\ input \in OneWayInputs \cup ReturnInputs
    /\ clock \in ClockInputs
    /\ ppc = "start"
    /\ obj = None
    /\ errors = {}
    /\ api = None
    /\ ClientIdle

\* FlightSearchParams(**input) / ReturnFlightSearchParams(**input)
FlightSearchParams_init ==
    /\ ppc = "start"
    /\ errors' = ValidationErrors(input, clock)
    /\ IF ValidationErrors(input, clock) = {}
       THEN obj' = Some(Construct(input, clock)) /\ ppc' = "constructed"
       ELSE obj' = None /\ ppc' = "invalid"
    /\ UNCHANGED <<input, clock, api>>
    /\ UNCHANGED cvars

\* obj.to_api_params()
ToApiParams ==
    /\ ppc = "constructed"
    /\ api' = Some(call_to_api_params(Val(obj)))
    /\ UNCHANGED <<input, clock, ppc, obj, errors>>
    /\ UNCHANGED cvars

NextParams == FlightSearchParams_init \/ ToApiParams

SpecParams == InitParams /\ [][NextParams]_vars

-----------------------------------------------------------------------------
(* The client as a state machine *)

ParamsIdle ==
    /\ input = None
    /\ clock = None
    /\ ppc = "idle"
    /\ obj = None
    /\ errors = {}
    /\ api = None

Init ==
    /\ ParamsIdle
    /\ pc = "uninitialized"
    /\ currency_arg \in CurrencyInputs
    /\ currency = None
    /\ url = None
    /\ attempt_number = 0
    /\ outcome = None
    /\ raised = {}
    /\ requested = {}
    /\ sent_params = None
    /\ result = None

\* The __get call in progress has ended: tenacity returns the attempt's
\* response, or re-raises its exception (reraise=True).
CallEnded ==
    /\ outcome # None
    /\ ~retry_again(attempt_number, Val(outcome))

\* RyanAir.__init__ up to the warm-up call
RyanAir_init ==
    /\ pc = "uninitialized"
    /\ pc' = "warmup"
    /\ url' = Some(WarmupUrl)
    /\ attempt_number' = 0
    /\ outcome' = None
    /\ raised' = {}
    /\ UNCHANGED <<currency_arg, currency, requested, sent_params, result>>
    /\ UNCHANGED pvars

\* One attempt of the retried __get: the first one, or the next one after
\* an attempt that raised.
get_call ==
    /\ pc \in {"warmup", "search"}
    /\ IF outcome = None THEN TRUE
       ELSE retry_again(attempt_number, Val(outcome))
    /\ \E got \in GotInputs(Val(url)) :
        /\ outcome' = Some(get_attempt(got))
        /\ raised' = IF get_attempt(got).kind = "exception"
                     THEN raised \cup {get_attempt(got).type}
                     ELSE raised
    /\ attempt_number' = attempt_number + 1
    /\ requested' = requested \cup {Val(url)}
    /\ UNCHANGED <<pc, currency_arg, currency, url, sent_params, result>>
    /\ UNCHANGED pvars

\* RyanAir.__init__: the warm-up __get returned
init_warmed ==
    /\ pc = "warmup"
    /\ CallEnded
    /\ IsResponse(outcome)
    /\ pc' = "warmed_up"
    /\ url' = None
    /\ UNCHANGED <<currency_arg, currency, attempt_number, outcome, raised,
                   requested, sent_params, result>>
    /\ UNCHANGED pvars

\* RyanAir.__init__: the warm-up __get re-raised; the constructor raises
init_raise ==
    /\ pc = "warmup"
    /\ CallEnded
    /\ IsException(outcome)
    /\ pc' = "init_raised"
    /\ url' = None
    /\ UNCHANGED <<currency_arg, currency, attempt_number, outcome, raised,
                   requested, sent_params, result>>
    /\ UNCHANGED pvars

\* RyanAir.__init__: currency resolution
init_currency ==
    /\ pc = "warmed_up"
    /\ currency' = Some(IF currency_arg \in currencies
                        THEN currency_arg ELSE "EUR")
    /\ pc' = "ready"
    /\ UNCHANGED <<currency_arg, url, attempt_number, outcome, raised,
                   requested, sent_params, result>>
    /\ UNCHANGED pvars

\* get_oneways(params) up to the __get call
get_oneways_call ==
    /\ pc = "ready"
    /\ \E p \in SearchParamInputs :
        sent_params' = Some(call_to_api_params(p))
    /\ pc' = "search"
    /\ url' = Some(OneWayUrl)
    /\ attempt_number' = 0
    /\ outcome' = None
    /\ raised' = {}
    /\ result' = None
    /\ UNCHANGED <<currency_arg, currency, requested>>
    /\ UNCHANGED pvars

\* get_oneways from the end of its __get call to its return or raise
get_oneways_end ==
    /\ pc = "search"
    /\ CallEnded
    /\ result' = Some(get_oneways(Val(outcome)))
    /\ pc' = "ready"
    /\ url' = None
    /\ UNCHANGED <<currency_arg, currency, attempt_number, outcome, raised,
                   requested, sent_params>>
    /\ UNCHANGED pvars

Next ==
    \/ RyanAir_init
    \/ get_call
    \/ init_warmed
    \/ init_raise
    \/ init_currency
    \/ get_oneways_call
    \/ get_oneways_end

Spec == Init /\ [][Next]_vars

-----------------------------------------------------------------------------
(* Claims about the parameter model, checked under SpecParams *)

Constructed == ppc = "constructed"
Built == Val(obj)
IsUpperCode(code) ==
    \A i \in DOMAIN code : ~(\E j \in DOMAIN Lower : Lower[j] = code[i])

\* C3: every date field of a parameter object (from_date, to_date, and for
\* ReturnFlightSearchParams return_date_from, return_date_to) is rejected
\* when it is earlier than the current time at validation and accepted
\* otherwise, so no constructed object holds a date that was already past.
C3_DatesNotInPast ==
    ppc # "start" =>
        /\ ("from_date" \in errors) <=> DtLess(input.from_date, clock.from_date)
        /\ ("to_date" \in errors) <=> DtLess(input.to_date, clock.to_date)
        /\ IsReturn(input) =>
            /\ ("return_date_from" \in errors)
                  <=> DtLess(input.return_date_from, clock.to_date)
            /\ ("return_date_to" \in errors)
                  <=> DtLess(input.return_date_to, clock.to_date)
        /\ Constructed =>
            /\ ~DtLess(Built.from_date, clock.from_date)
            /\ ~DtLess(Built.to_date, clock.to_date)
            /\ IsReturn(input) =>
                /\ ~DtLess(Built.return_date_from, clock.to_date)
                /\ ~DtLess(Built.return_date_to, clock.to_date)

\* C4: every airport code a constructed object holds (from_airport, and
\* to_airport when set) is a key of the station table and uppercase, and so
\* are the airport codes to_api_params emits.
C4_AirportCodesValid ==
    Constructed =>
        /\ Built.from_airport \in stations
        /\ IsUpperCode(Built.from_airport)
        /\ TruthySeq(Built.to_airport) =>
            /\ Val(Built.to_airport) \in stations
            /\ IsUpperCode(Val(Built.to_airport))
        /\ api # None =>
            /\ Val(api).departureAirportIataCode \in stations
            /\ IsUpperCode(Val(api).departureAirportIataCode)
            /\ Has(Val(api), "arrivalAirportIataCode") =>
                /\ Val(api).arrivalAirportIataCode \in stations
                /\ IsUpperCode(Val(api).arrivalAirportIataCode)

\* C5: with the other fields valid, construction succeeds exactly when the
\* given from_airport is a key of the station table; on success the stored
\* code is the uppercase form of the given one, and when the code is not a
\* key the validation error is raised and no object exists.
C5_FromAirportValidated ==
    ppc # "start" =>
        /\ ("from_airport" \in errors) <=> (input.from_airport \notin stations)
        /\ errors \ {"from_airport"} = {} =>
             (Constructed <=> input.from_airport \in stations)
        /\ Constructed =>
            /\ Len(Built.from_airport) = Len(input.from_airport)
            /\ \A i \in DOMAIN input.from_airport :
                  Built.from_airport[i] = UpperChar(input.from_airport[i])
            /\ IsUpperCode(Built.from_airport)
        /\ input.from_airport \notin stations => ppc = "invalid" /\ obj = None

C5_Witness ==
    /\ Constructed
    /\ input.from_airport = <<"D", "U", "B">>
    /\ Built.from_airport = <<"D", "U", "B">>

\* C6: a max_price that is present and <= 0 fails construction; a positive
\* one is accepted and to_api_params maps priceValueTo to it; an absent one
\* is accepted and the mapping has no priceValueTo key.
C6_MaxPrice ==
    ppc # "start" =>
        /\ input.max_price # None /\ Val(input.max_price) <= 0 =>
            /\ ppc = "invalid"
            /\ obj = None
            /\ "max_price" \in errors
        /\ input.max_price # None /\ Val(input.max_price) > 0 =>
            /\ "max_price" \notin errors
            /\ errors \ {"max_price"} = {} => Constructed
            /\ api # None =>
                /\ Has(Val(api), "priceValueTo")
                /\ Val(api).priceValueTo = Val(input.max_price)
        /\ input.max_price = None =>
            /\ "max_price" \notin errors
            /\ errors \ {"max_price"} = {} => Constructed
            /\ api # None => ~Has(Val(api), "priceValueTo")

C6_Witness ==
    /\ api # None
    /\ input.max_price = Some(2)
    /\ Val(api).priceValueTo = 2

\* C7: to_api_params of a FlightSearchParams leaves the object as built,
\* and returns a mapping whose keys are the five mandatory ones plus
\* arrivalCountryCode, priceValueTo, arrivalAirportIataCode, each present
\* exactly when its optional field is set (not None, not empty); the two
\* time keys are "00:00" and "23:59" when the time fields are unset.
MandatoryKeys ==
    {"departureAirportIataCode", "outboundDepartureDateFrom",
     "outboundDepartureDateTo", "outboundDepartureTimeFrom",
     "outboundDepartureTimeTo"}

C7_ApiParamsKeys ==
    api # None /\ ~IsReturn(input) =>
        /\ obj = Some(Construct(input, clock))
        /\ DOMAIN Val(api) =
              MandatoryKeys
              \cup (IF input.destination_country \in {None, Some("")}
                    THEN {} ELSE {"arrivalCountryCode"})
              \cup (IF input.max_price = None THEN {} ELSE {"priceValueTo"})
              \cup (IF input.to_airport \in {None, Some(<<>>)}
                    THEN {} ELSE {"arrivalAirportIataCode"})
        /\ input.departure_time_from \in {None, Some("")} =>
              Val(api).outboundDepartureTimeFrom = "00:00"
        /\ input.departure_time_to \in {None, Some("")} =>
              Val(api).outboundDepartureTimeTo = "23:59"
        /\ input.departure_time_from \notin {None, Some("")} =>
              Val(api).outboundDepartureTimeFrom = Val(input.departure_time_from)
        /\ input.departure_time_to \notin {None, Some("")} =>
              Val(api).outboundDepartureTimeTo = Val(input.departure_time_to)

C7_Witness ==
    /\ api # None
    /\ ~IsReturn(input)
    /\ input.destination_country = Some("")
    /\ input.to_airport = Some(<<"S", "T", "N">>)
    /\ input.max_price = None
    /\ input.departure_time_from = None
    /\ DOMAIN Val(api) = MandatoryKeys \cup {"arrivalAirportIataCode"}

-----------------------------------------------------------------------------
(* Claims about the client, checked under Spec *)

Ended == result # None
Returned == Val(result)
\* The fare-search response get_oneways worked on
GotResponse == Ended /\ IsResponse(outcome)
GotFares ==
    /\ GotResponse
    /\ Val(outcome).body.is_json
    /\ Has(Val(outcome).body.value, "fares")
Fares == Val(outcome).body.value.fares

AirportComplete(a) ==
    /\ {"countryName", "iataCode", "name", "seoName", "city"} \subseteq DOMAIN a
    /\ {"name", "code", "countryCode"} \subseteq DOMAIN a.city
HasRequiredFields(fare) ==
    /\ Has(fare, "outbound")
    /\ {"departureDate", "arrivalDate", "departureAirport", "arrivalAirport",
        "price", "flightKey", "flightNumber"} \subseteq DOMAIN fare.outbound
    /\ {"value", "currencyCode"} \subseteq DOMAIN fare.outbound.price
    /\ AirportComplete(fare.outbound.departureAirport)
    /\ AirportComplete(fare.outbound.arrivalAirport)
IsoTimestamps ==
    {"2030-01-01T10:00:00", "2030-01-01T12:00:00", "2030-01-02T10:00:00"}
WellFormedValues(fare) ==
    /\ Has(fare.outbound.departureDate, "str")
    /\ fare.outbound.departureDate.str \in IsoTimestamps
    /\ Has(fare.outbound.arrivalDate, "str")
    /\ fare.outbound.arrivalDate.str \in IsoTimestamps
    /\ Has(fare.outbound.price.value, "num")
    /\ Has(fare.outbound.price.currencyCode, "str")
    /\ Has(fare.outbound.flightKey, "str")
    /\ Has(fare.outbound.flightNumber, "str")
    /\ \A a \in {fare.outbound.departureAirport, fare.outbound.arrivalAirport} :
          /\ \A k \in {"countryName", "iataCode", "name", "seoName"} :
                Has(a[k], "str")
          /\ \A k \in {"name", "code", "countryCode"} : Has(a.city[k], "str")

\* C1: when every attempt of the fare-search GET raised a transport error,
\* exactly 5 attempts were made and get_oneways returned an empty list.
C1_TransportFailureGivesEmpty ==
    /\ pc = "search" => attempt_number <= 5
    /\ (/\ Ended
        /\ IsException(outcome)
        /\ \A t \in raised : IsInstance(t, "HTTPError"))
       => /\ attempt_number = 5
          /\ Returned = Return(<<>>)

C1_Witness ==
    /\ Ended
    /\ IsException(outcome)
    /\ raised = {"ConnectError", "HTTPStatusError"}
    /\ attempt_number = 5
    /\ Returned = Return(<<>>)

\* C2: whatever the HTTP exchange and the response parsing do, get_oneways
\* ends by returning a list, never by raising, and the list is empty when
\* the request or the parsing failed.
C2_NeverRaises ==
    Ended =>
        /\ Returned.kind = "return"
        /\ (IsException(outcome) \/ ~get_oneways_try(Val(outcome)).ok)
              => Returned = Return(<<>>)

C9_MissingFieldGivesEmpty ==
    (GotFares /\ \E i \in DOMAIN Fares : ~HasRequiredFields(Fares[i])) =>
        /\ Returned = Return(<<>>)
        /\ IsResponse(outcome)

\* C10: every __get call makes a new attempt only after the previous one
\* raised and never more than 5; the call ends at the first attempt that
\* does not raise or with the 5th exception re-raised.  The client becomes
\* ready only after a warm-up attempt succeeded, and when all 5 warm-up
\* attempts fail the constructor raises and no fare-search request is ever
\* issued.
C10_RetryPolicy ==
    /\ [](attempt_number <= 5)
    /\ [][attempt_number' = attempt_number + 1 =>
            /\ pc \in {"warmup", "search"}
            /\ outcome = None \/ (IsException(outcome) /\ attempt_number < 5)
            /\ outcome = None <=> attempt_number = 0]_vars
    /\ [][(pc \in {"warmup", "search"} /\ pc' # pc) =>
            /\ attempt_number' = attempt_number
            /\ outcome' = outcome
            /\ IsResponse(outcome) \/ (IsException(outcome) /\ attempt_number = 5)
            /\ pc' = "warmed_up" <=> (pc = "warmup" /\ IsResponse(outcome))
            /\ pc' = "init_raised" <=> (pc = "warmup" /\ IsException(outcome))
            /\ (pc = "search" /\ IsException(outcome)) =>
                  result' = Some(get_oneways_except(Val(outcome).type))]_vars
    /\ [][(pc' = "ready" /\ pc # "ready") => pc \in {"warmed_up", "search"}]_vars
    /\ [][pc = "init_raised" => pc' = "init_raised"]_vars
    /\ [](pc = "init_raised" => attempt_number = 5 /\ IsException(outcome))
    /\ [](OneWayUrl \in requested => pc \in {"ready", "search"})
    /\ [](pc \in {"ready", "search"} => WarmupUrl \in requested)
    /\ [](pc = "init_raised" => OneWayUrl \notin requested)

C10_Witness ==
    /\ pc = "init_raised"
    /\ attempt_number = 5
    /\ raised = {"ConnectError", "RuntimeError", "HTTPStatusError"}
    /\ requested = {WarmupUrl}

====
